---- MODULE Spec2Model ----
(***************************************************************************)
(* Model of the RSA visualizer's number-theory module (src/src/rsa-math.js)*)
(* The functions are pure: each one is an operator computed the way the    *)
(* code computes it, with the JavaScript BigInt operators (% and / truncate*)
(* toward zero, division by zero throws RangeError) modelled explicitly.   *)
(* The specification Spec draws one call (function and arguments) in Init  *)
(* and applies the function in its action; GenSpec runs the loop of        *)
(* generateRandomPrime; AppSpec is the visualizer (src/src/App.jsx): ui is *)
(* the React state of VisualizerModeContainer and each action is one event *)
(* handler.                                                                *)
(***************************************************************************)
EXTENDS Integers, Sequences, FiniteSets, TLC

VARIABLES pc, op, args, res, ui

vars == <<pc, op, args, res, ui>>

(***************************************************************************)
(* Bounds of the argument sets.                                            *)
(***************************************************************************)
MaxBase == 7
MaxExp == 8
MaxMod == 10
MaxArg == 12
MaxNum == 600
MaxTextLen == 2
MaxBigLen == 2
MaxPrime == 11
MaxRange == 14
MaxField == 7

(***************************************************************************)
(* JavaScript BigInt arithmetic.                                           *)
(***************************************************************************)
Abs(x) == IF x < 0 THEN -x ELSE x

\* a % b on BigInt (b # 0): the remainder has the sign of the dividend.
JsRem(a, b) == IF a < 0 THEN -((-a) % Abs(b)) ELSE a % Abs(b)

\* Mutant of JsDiv: the quotient rounded toward minus infinity.
JsDivFloor(a, b) == IF b < 0 THEN (-a) \div (-b) ELSE a \div b

\* a / b on BigInt (b # 0): the quotient is truncated toward zero.
JsDiv(a, b) == IF (a < 0) = (b < 0) THEN Abs(a) \div Abs(b)
                                    ELSE -(Abs(a) \div Abs(b))

(***************************************************************************)
(* gcd, extendedEuclidean, modInverse.                                     *)
(***************************************************************************)
\* Mutant of gcd: the base case returns b instead of a.
RECURSIVE gcdReturnsB(_, _)
gcdReturnsB(a, b) == IF b = 0 THEN b ELSE gcdReturnsB(b, JsRem(a, b))

RECURSIVE gcd(_, _)
gcd(a, b) == IF b = 0 THEN a ELSE gcd(b, JsRem(a, b))

\* Mutant of eeStep: y = x1 + (a / b) * y1.
eeStepPlus(a, b, inner) == <<inner[1], inner[3], inner[2] + JsDiv(a, b) * inner[3]>>

\* The recursive step of extendedEuclidean: [g, x, y] from the inner
\* call's [g, x1, y1].
eeStep(a, b, inner) == <<inner[1], inner[3], inner[2] - JsDiv(a, b) * inner[3]>>

RECURSIVE extendedEuclidean(_, _)
extendedEuclidean(a, b) ==
    IF b = 0 THEN <<a, 1, 0>>
    ELSE eeStep(a, b, extendedEuclidean(b, JsRem(a, b)))

\* The three outcomes of modInverse: the null sentinel, a number, or the
\* RangeError of x % 0n.
NoInverse == [kind |-> "null", val |-> 0]
Num(v) == [kind |-> "num", val |-> v]
RangeError == [kind |-> "throw", val |-> 0]

\* Mutant of makePositive: x % phi alone.
makePositiveRemOnly(x, phi) == JsRem(x, phi)

\* (x % phi + phi) % phi
makePositive(x, phi) == JsRem(JsRem(x, phi) + phi, phi)

\* Mutant of modInverse: the test reads x where it should read g.
modInverseTestsX(e, phi) ==
    LET r == extendedEuclidean(e, phi)
    IN  IF r[2] # 1 THEN NoInverse
        ELSE IF phi = 0 THEN RangeError
        ELSE Num(makePositive(r[2], phi))

modInverse(e, phi) ==
    LET r == extendedEuclidean(e, phi)
    IN  IF r[1] # 1 THEN NoInverse
        ELSE IF phi = 0 THEN RangeError
        ELSE Num(makePositive(r[2], phi))

(***************************************************************************)
(* isPrime.                                                                *)
(***************************************************************************)
RECURSIVE isPrimeLoop(_, _)
isPrimeLoop(num, i) ==
    IF i * i <= num
    THEN IF num % i = 0 \/ num % (i + 2) = 0 THEN FALSE
         ELSE isPrimeLoop(num, i + 6)
    ELSE TRUE

\* Mutant of isPrime: the divisibility by 3 is not tested.
isPrimeNoThree(num) ==
    IF num <= 1 THEN FALSE
    ELSE IF num <= 3 THEN TRUE
    ELSE IF num % 2 = 0 THEN FALSE
    ELSE isPrimeLoop(num, 5)

isPrime(num) ==
    IF num <= 1 THEN FALSE
    ELSE IF num <= 3 THEN TRUE
    ELSE IF num % 2 = 0 \/ num % 3 = 0 THEN FALSE
    ELSE isPrimeLoop(num, 5)

(***************************************************************************)
(* modPow.                                                                 *)
(***************************************************************************)
\* Mutant of modPowIter: the base is not squared.
modPowIterNoSquare(result, base, exponent, modulus) ==
    << IF exponent % 2 = 1 THEN JsRem(result * base, modulus) ELSE result,
       base,
       exponent \div 2 >>

\* One iteration of the while loop: <<result, base, exponent>> after it.
modPowIter(result, base, exponent, modulus) ==
    << IF exponent % 2 = 1 THEN JsRem(result * base, modulus) ELSE result,
       JsRem(base * base, modulus),
       exponent \div 2 >>

RECURSIVE modPowLoop(_, _, _, _)
modPowLoop(result, base, exponent, modulus) ==
    IF exponent > 0
    THEN LET s == modPowIter(result, base, exponent, modulus)
         IN  modPowLoop(s[1], s[2], s[3], modulus)
    ELSE result

\* Mutant of modPow: no special case for modulus 1.
modPowNoModulusOne(base, exponent, modulus) ==
    modPowLoop(1, JsRem(base, modulus), exponent, modulus)

modPow(base, exponent, modulus) ==
    IF modulus = 1 THEN 0
    ELSE modPowLoop(1, JsRem(base, modulus), exponent, modulus)

(***************************************************************************)
(* modPowWithSteps.  A trace entry (a template string in the code) is a    *)
(* tuple: the entry's kind followed by the numbers the string interpolates.*)
(***************************************************************************)
\* exp.toString(2) for exp >= 0: the binary digits, most significant first.
RECURSIVE toBinary(_)
toBinary(n) == IF n < 2 THEN <<n>> ELSE Append(toBinary(n \div 2), n % 2)

\* Mutant of bitSteps: the multiply entry logs the accumulator before the
\* multiplication.
bitStepsStale(fromRight, bit, result, b, modulus) ==
    << <<"bit", fromRight, bit>> >> \o
    ( IF bit = 1
      THEN << <<"mulrule">>, <<"mul", result, b, modulus, result>> >>
      ELSE << <<"keep", result>> >> )

\* The entries pushed for one bit; result and b are the values before it.
bitSteps(fromRight, bit, result, b, modulus) ==
    << <<"bit", fromRight, bit>> >> \o
    ( IF bit = 1
      THEN << <<"mulrule">>, <<"mul", result, b, modulus, JsRem(result * b, modulus)>> >>
      ELSE << <<"keep", result>> >> )

squareSteps(b, modulus) ==
    << <<"sqrule">>, <<"square", b, modulus, JsRem(b * b, modulus)>> >>

\* The for loop.  The code's index i runs from length-1 down to 0 over a
\* 0-based string; here k = i + 1 runs from Len(binaryExp) down to 1.
RECURSIVE modPowStepsLoop(_, _, _, _, _, _)
modPowStepsLoop(binaryExp, k, result, b, modulus, steps) ==
    IF k >= 1
    THEN LET bit == binaryExp[k]
             r2  == IF bit = 1 THEN JsRem(result * b, modulus) ELSE result
             s2  == steps \o bitSteps(Len(binaryExp) - k, bit, result, b, modulus)
         IN  IF k > 1
             THEN modPowStepsLoop(binaryExp, k - 1, r2, JsRem(b * b, modulus),
                                  modulus, s2 \o squareSteps(b, modulus))
             ELSE modPowStepsLoop(binaryExp, k - 1, r2, b, modulus, s2)
    ELSE [steps |-> steps \o << <<"sep">>, <<"final", result>> >>, result |-> result]

\* Mutant of modPowWithSteps: the loop starts one bit too far to the left.
modPowWithStepsSkipsBit(base, exponent, modulus) ==
    IF modulus = 1 THEN [steps |-> << <<"modulus1">> >>, result |-> 0]
    ELSE LET binaryExp == toBinary(exponent)
         IN  modPowStepsLoop(binaryExp, Len(binaryExp) - 1, 1, JsRem(base, modulus),
                 modulus,
                 << <<"title">>, <<"formula", base, exponent, modulus>>,
                    <<"binary", binaryExp>>, <<"sep">>, <<"init">> >>)

modPowWithSteps(base, exponent, modulus) ==
    IF modulus = 1 THEN [steps |-> << <<"modulus1">> >>, result |-> 0]
    ELSE LET binaryExp == toBinary(exponent)
         IN  modPowStepsLoop(binaryExp, Len(binaryExp), 1, JsRem(base, modulus), modulus,
                 << <<"title">>, <<"formula", base, exponent, modulus>>,
                    <<"binary", binaryExp>>, <<"sep">>, <<"init">> >>)

(***************************************************************************)
(* Text <-> integer codec.  A text is a sequence of Unicode scalar values; *)
(* a BigInt that holds a text is a sequence of base-256 digits, most       *)
(* significant first and without leading zero digits (<< >> is 0n), so that*)
(* its magnitude is not limited by TLC's integers.                 *)
(***************************************************************************)
\* The number a digit sequence stands for (used where it fits TLC's
\* integers: up to three digits).
RECURSIVE BigValue(_)
BigValue(big) ==
    IF big = << >> THEN 0
    ELSE 256 * BigValue(SubSeq(big, 1, Len(big) - 1)) + big[Len(big)]

\* The digit sequence of a natural.
RECURSIVE toDigits(_)
toDigits(v) == IF v = 0 THEN << >> ELSE Append(toDigits(v \div 256), v % 256)

\* big >= k for a natural k below 256^3: more than three digits are more.
bigGe(big, k) == Len(big) > 3 \/ BigValue(big) >= k

\* TextEncoder.encode for one scalar value: its UTF-8 bytes.
utf8Bytes(cp) ==
    IF cp < 128 THEN <<cp>>
    ELSE IF cp < 2048 THEN <<192 + (cp \div 64), 128 + (cp % 64)>>
    ELSE IF cp < 65536
         THEN <<224 + (cp \div 4096), 128 + ((cp \div 64) % 64), 128 + (cp % 64)>>
    ELSE <<240 + (cp \div 262144), 128 + ((cp \div 4096) % 64),
           128 + ((cp \div 64) % 64), 128 + (cp % 64)>>

RECURSIVE encode(_)
encode(text) == IF text = << >> THEN << >>
                ELSE utf8Bytes(Head(text)) \o encode(Tail(text))

\* Mutant of shiftAdd: the byte becomes the high digit (little-endian fold).
shiftAddHigh(result, byte) == <<byte>> \o result

\* (result << 8n) + BigInt(byte) on the digit sequence: a new low digit;
\* 0n shifted stays 0n, so a zero byte added to 0n gives 0n.
shiftAdd(result, byte) == IF result = << >> /\ byte = 0 THEN << >>
                          ELSE Append(result, byte)

RECURSIVE textToBigIntLoop(_, _, _)
textToBigIntLoop(encoded, i, result) ==
    IF i <= Len(encoded)
    THEN textToBigIntLoop(encoded, i + 1, shiftAdd(result, encoded[i]))
    ELSE result

textToBigInt(text) == textToBigIntLoop(encode(text), 1, << >>)

\* bigIntValue.toString(16): the hexadecimal digits (as numbers 0..15), most
\* significant first, no leading zero; "0" for 0n.
RECURSIVE hexDigits(_)
hexDigits(big) ==
    IF big = << >> THEN << >>
    ELSE hexDigits(SubSeq(big, 1, Len(big) - 1))
           \o <<big[Len(big)] \div 16, big[Len(big)] % 16>>

toHexString(big) ==
    IF big = << >> THEN <<0>>
    ELSE LET h == hexDigits(big)
         IN  IF h[1] = 0 THEN Tail(h) ELSE h

\* The loop of bigIntToText: parseInt of each pair of hexadecimal digits.
RECURSIVE hexPairs(_, _)
hexPairs(hexString, i) ==
    IF i + 1 <= Len(hexString)
    THEN <<(16 * hexString[i]) + hexString[i + 1]>> \o hexPairs(hexString, i + 2)
    ELSE IF i = Len(hexString) THEN <<hexString[i]>>
    ELSE << >>

\* TextDecoder.decode (UTF-8, fatal: false, ignoreBOM: false) after the
\* byte order mark has been dealt with: the decoder of the Encoding
\* standard.  cp, seen and needed are the code point under construction,
\* lower..upper the range the next continuation byte must lie in; an
\* ill-formed sequence yields U+FFFD and the offending byte is read again.
Replacement == 65533

RECURSIVE utf8Decode(_, _, _, _, _, _, _, _)
utf8Decode(bytes, i, cp, seen, needed, lower, upper, out) ==
    IF i > Len(bytes)
    THEN IF needed # 0 THEN Append(out, Replacement) ELSE out
    ELSE LET byte == bytes[i]
         IN  IF needed = 0
             THEN IF byte <= 127
                  THEN utf8Decode(bytes, i + 1, 0, 0, 0, 128, 191, Append(out, byte))
                  ELSE IF byte >= 194 /\ byte <= 223
                  THEN utf8Decode(bytes, i + 1, byte - 192, 0, 1, 128, 191, out)
                  ELSE IF byte >= 224 /\ byte <= 239
                  THEN utf8Decode(bytes, i + 1, byte - 224, 0, 2,
                                  IF byte = 224 THEN 160 ELSE 128,
                                  IF byte = 237 THEN 159 ELSE 191, out)
                  ELSE IF byte >= 240 /\ byte <= 244
                  THEN utf8Decode(bytes, i + 1, byte - 240, 0, 3,
                                  IF byte = 240 THEN 144 ELSE 128,
                                  IF byte = 244 THEN 143 ELSE 191, out)
                  ELSE utf8Decode(bytes, i + 1, 0, 0, 0, 128, 191,
                                  Append(out, Replacement))
             ELSE IF byte < lower \/ byte > upper
                  THEN utf8Decode(bytes, i, 0, 0, 0, 128, 191, Append(out, Replacement))
                  ELSE IF seen + 1 = needed
                  THEN utf8Decode(bytes, i + 1, 0, 0, 0, 128, 191,
                                  Append(out, (cp * 64) + (byte - 128)))
                  ELSE utf8Decode(bytes, i + 1, (cp * 64) + (byte - 128),
                                  seen + 1, needed, 128, 191, out)

\* A leading EF BB BF is the byte order mark, which the decoder drops.
BOM == <<239, 187, 191>>

decode(bytes) ==
    LET body == IF Len(bytes) >= 3 /\ SubSeq(bytes, 1, 3) = BOM
                THEN SubSeq(bytes, 4, Len(bytes)) ELSE bytes
    IN  utf8Decode(body, 1, 0, 0, 0, 128, 191, << >>)

\* Mutant of padEven: the string is never padded.
padEvenNever(hexString) == hexString

\* '0' + hexString when the length is odd.
padEven(hexString) == IF Len(hexString) % 2 # 0 THEN <<0>> \o hexString
                      ELSE hexString

bigIntToText(bigIntValue) ==
    decode(hexPairs(padEven(toHexString(bigIntValue)), 1))

(***************************************************************************)
(* The state of VisualizerModeContainer.  null is << >> and a value v is   *)
(* <<v>>; the string of an input field is << >> when empty and <<k>> when  *)
(* it spells the number k.                                                 *)
(***************************************************************************)
Null == << >>
Some(v) == <<v>>

\* The useState initial values.
uiInit ==
    [p |-> << >>, q |-> << >>, e |-> << >>, n |-> Null, phi |-> Null, d |-> Null,
     pError |-> Null, qError |-> Null, eError |-> Null,
     keyGenSteps |-> << >>, currentKeyGenStep |-> 0,
     plaintext |-> << >>, messageInt |-> Null, ciphertext |-> Null,
     encryptionSteps |-> << >>,
     decryptedMessageInt |-> Null, decryptedPlaintext |-> << >>,
     decryptionSteps |-> << >>]

(***************************************************************************)
(* The calls.  Init draws a function and its arguments; the function's     *)
(* action applies it and stores what it returns.                           *)
(***************************************************************************)
\* U+0000, line feed, H, I, e-acute (2 bytes), the euro sign (3 bytes),
\* U+FEFF (the byte order mark as a character) and U+1F600 (4 bytes).
Alphabet == {0, 10, 72, 73, 233, 8364, 65279, 128512}

Texts == UNION {[1..len -> Alphabet] : len \in 0..MaxTextLen}

\* modPow(4, 13, 497) is the specification's reference vector.
PowArgs == (((-MaxBase)..MaxBase) \X (0..MaxExp) \X (1..MaxMod)) \cup {<<4, 13, 497>>}

PairArgs == ((-MaxArg)..MaxArg) \X ((-MaxArg)..MaxArg)

NumArgs == {<<num>> : num \in (-MaxArg)..MaxNum}

TextArgs == {<<text>> : text \in Texts}

\* Bytes an integer handed to bigIntToText is made of: NUL, A, a lone
\* continuation byte, the two bytes of e-acute (195 169), a 3-byte lead and
\* a byte that occurs in no UTF-8 sequence.
ByteSamples == {0, 65, 128, 169, 195, 226, 255}

BigInts == {big \in UNION {[1..len -> ByteSamples] : len \in 0..MaxBigLen} :
                big = << >> \/ big[1] # 0}

BigArgs == {<<big>> : big \in BigInts}

\* The key of handleGenerateKeys: the tests of validateP, validateQ and
\* validateE on numbers.
validKey(p, q, e) ==
    /\ isPrime(p) /\ isPrime(q) /\ p # q
    /\ e > 1 /\ e < (p - 1) * (q - 1)
    /\ gcd(e, (p - 1) * (q - 1)) = 1

\* <<p, q, e, M>>: a valid key and a message below n; p = 17, q = 19, e = 5
\* is the specification's end-to-end scenario.
KeyArgs ==
    UNION { UNION { UNION { {<<p, q, e, m>> : m \in 0..(p * q - 1)} :
                            e \in {x \in 2..((p - 1) * (q - 1)) : validKey(p, q, x)} } :
                    q \in 2..MaxPrime } :
            p \in 2..MaxPrime }
    \cup {<<17, 19, 5, m>> : m \in 0..322}

ArgsOf(f) ==
    CASE f = "gcd" -> PairArgs
      [] f = "extendedEuclidean" -> PairArgs
      [] f = "modInverse" -> PairArgs
      [] f = "isPrime" -> NumArgs
      [] f = "modPow" -> PowArgs
      [] f = "modPowWithSteps" -> PowArgs
      [] f = "roundTrip" -> TextArgs
      [] f = "bigIntToText" -> BigArgs
      [] f = "encryptDecrypt" -> KeyArgs

Functions == {"gcd", "extendedEuclidean", "modInverse", "isPrime", "modPow",
              "modPowWithSteps", "roundTrip", "bigIntToText", "encryptDecrypt"}

Init ==
    /\ pc = "call"
    /\ op \in Functions
    /\ args \in ArgsOf(op)
    /\ res = << >>
    /\ ui = uiInit

Return(value) ==
    /\ pc = "call"
    /\ pc' = "done"
    /\ res' = value
    /\ UNCHANGED <<op, args, ui>>

CallGcd == op = "gcd" /\ Return(gcd(args[1], args[2]))

CallExtendedEuclidean ==
    op = "extendedEuclidean" /\ Return(extendedEuclidean(args[1], args[2]))

CallModInverse == op = "modInverse" /\ Return(modInverse(args[1], args[2]))

CallIsPrime == op = "isPrime" /\ Return(isPrime(args[1]))

CallModPow == op = "modPow" /\ Return(modPow(args[1], args[2], args[3]))

CallModPowWithSteps ==
    op = "modPowWithSteps" /\ Return(modPowWithSteps(args[1], args[2], args[3]))

\* bigIntToText(textToBigInt(text)); the integer in between is kept.
CallRoundTrip ==
    /\ op = "roundTrip"
    /\ LET big == textToBigInt(args[1])
       IN  Return([big |-> big, text |-> bigIntToText(big)])

\* bigIntToText on an arbitrary integer.  decoder.decode does not throw
\* (the decoder is not fatal), so the call always returns a text.
CallBigIntToText ==
    op = "bigIntToText" /\ Return([kind |-> "text", text |-> bigIntToText(args[1])])

\* The key of handleGenerateKeys from p, q and e, then C = M^e mod n and
\* M' = C^d mod n.
CallEncryptDecrypt ==
    /\ op = "encryptDecrypt"
    /\ LET nCalc == args[1] * args[2]
           phiCalc == (args[1] - 1) * (args[2] - 1)
           dCalc == modInverse(args[3], phiCalc)
           c == modPow(args[4], args[3], nCalc)
       IN  Return([n |-> nCalc, phi |-> phiCalc, d |-> dCalc, c |-> c,
                   m |-> IF dCalc.kind = "num" THEN modPow(c, dCalc.val, nCalc) ELSE -1])

Next ==
    \/ CallGcd
    \/ CallExtendedEuclidean
    \/ CallModInverse
    \/ CallIsPrime
    \/ CallModPow
    \/ CallModPowWithSteps
    \/ CallRoundTrip
    \/ CallBigIntToText
    \/ CallEncryptDecrypt

Spec == Init /\ [][Next]_vars

Returned(f) == pc = "done" /\ op = f

(***************************************************************************)
(* generateRandomPrime as a process: res is the local p; pc is "test" at   *)
(* the while condition, "body" inside the loop and "done" once the function*)
(* has returned.  The function has no other outcome.                       *)
(***************************************************************************)
\* The range handleGeneratePrimes asks for.
PrimeMin == 10
PrimeMax == 50

\* <<min, max>> with min <= max.
RangeArgs ==
    {r \in ((-2)..MaxRange) \X ((-2)..MaxRange) : r[1] <= r[2]}
    \cup {<<PrimeMin, PrimeMax>>}

\* Mutant of sample: the upper end is one too far.
sampleTooFar(min, max) == min..(max + 1)

\* The values of Math.floor(Math.random() * (max - min + 1)) + min, for
\* Math.random() in [0, 1) and min <= max.
sample(min, max) == min..max

GenInit ==
    /\ pc = "test"
    /\ op = "generateRandomPrime"
    /\ args \in RangeArgs
    /\ res = 0
    /\ ui = uiInit

\* while (!isPrime(p)): the condition holds, the body is entered.
GenEnter ==
    /\ pc = "test"
    /\ ~isPrime(res)
    /\ pc' = "body"
    /\ UNCHANGED <<op, args, res, ui>>

\* The body: p is sampled again.
GenSample ==
    /\ pc = "body"
    /\ res' \in sample(args[1], args[2])
    /\ pc' = "test"
    /\ UNCHANGED <<op, args, ui>>

\* The condition fails: return p.
GenReturn ==
    /\ pc = "test"
    /\ isPrime(res)
    /\ pc' = "done"
    /\ UNCHANGED <<op, args, res, ui>>

GenNext == GenEnter \/ GenSample \/ GenReturn

GenSpec == GenInit /\ [][GenNext]_vars

\* The function keeps running as long as it has a step to take.
GenFairSpec == GenSpec /\ WF_vars(GenNext)

(***************************************************************************)
(* The visualizer.  A handler is an operator from the state s its closure  *)
(* was rendered with to the state after the state setters it calls, the    *)
(* last write to a field winning.                                          *)
(***************************************************************************)
\* What the user can type into the p, q and e fields.
FieldInputs == {<< >>} \cup {<<k>> : k \in 0..MaxField}

\* A BigInt-or-null value in a condition: null and 0n are falsy.
truthy(v) == v # Null /\ v[1] # 0

isKeyGenerationReady(s) ==
    s.p # << >> /\ s.q # << >> /\ s.pError = Null /\ s.qError = Null

isKeyReady(s) == truthy(s.n) /\ s.e # << >> /\ truthy(s.d) /\ truthy(s.phi)

\* validateP: the error it sets (null when it returns true).
validateP(pVal, qVal) ==
    IF pVal = << >> THEN Some("Prime p is required.")
    ELSE IF ~isPrime(pVal[1]) THEN Some("p must be a prime number.")
    ELSE IF qVal # << >> /\ pVal = qVal THEN Some("p and q must be different.")
    ELSE Null

validateQ(qVal, pVal) ==
    IF qVal = << >> THEN Some("Prime q is required.")
    ELSE IF ~isPrime(qVal[1]) THEN Some("q must be a prime number.")
    ELSE IF pVal # << >> /\ qVal = pVal THEN Some("p and q must be different.")
    ELSE Null

validateE(val, currentPhi) ==
    IF val = << >> THEN Some("e is required.")
    ELSE IF ~truthy(currentPhi) THEN Null
    ELSE IF val[1] <= 1 \/ val[1] >= currentPhi[1]
         THEN Some("e must be between 1 and phi(n).")
    ELSE IF gcd(val[1], currentPhi[1]) # 1 THEN Some("e must be coprime with phi(n).")
    ELSE Null

resetDecryption(s) ==
    [s EXCEPT !.decryptedMessageInt = Null, !.decryptedPlaintext = << >>,
              !.decryptionSteps = << >>]

resetEncryption(s) ==
    resetDecryption([s EXCEPT !.plaintext = << >>, !.messageInt = Null,
                              !.ciphertext = Null, !.encryptionSteps = << >>])

\* Mutant of resetCalculations: d is not cleared.
resetCalculationsKeepsD(s) ==
    resetEncryption([s EXCEPT !.n = Null, !.phi = Null, !.e = << >>,
                              !.eError = Null, !.keyGenSteps = << >>,
                              !.currentKeyGenStep = 0])

resetCalculations(s) ==
    resetEncryption([s EXCEPT !.n = Null, !.phi = Null, !.e = << >>, !.d = Null,
                              !.eError = Null, !.keyGenSteps = << >>,
                              !.currentKeyGenStep = 0])

onPChange(s, val) ==
    resetCalculations([s EXCEPT !.p = val, !.pError = validateP(val, s.q)])

onQChange(s, val) ==
    resetCalculations([s EXCEPT !.q = val, !.qError = validateQ(val, s.p)])

onEChange(s, val) == [s EXCEPT !.e = val, !.eError = validateE(val, s.phi)]

\* The onChange of the plaintext input: setPlaintext(e.target.value), then
\* resetEncryption(), whose setPlaintext('') is the later write.
onPlaintextChange(s, val) == resetEncryption([s EXCEPT !.plaintext = val])

\* What generateRandomPrime(10, 50) can return.
generatedPrimes == {v \in sample(PrimeMin, PrimeMax) : isPrime(v)}

\* handleGeneratePrimes with the primes drawn; the while loop makes them
\* differ.
handleGeneratePrimes(s, pVal, qVal) ==
    resetCalculations([s EXCEPT !.p = <<pVal>>, !.q = <<qVal>>,
                                !.pError = validateP(<<pVal>>, <<qVal>>),
                                !.qError = validateQ(<<qVal>>, <<pVal>>)])

\* setD(modInverse(...)): null stays null.
inverseOrNull(r) == IF r.kind = "num" THEN Some(r.val) ELSE Null

handleGenerateKeys(s) ==
    IF validateP(s.p, s.q) # Null
    THEN [s EXCEPT !.pError = validateP(s.p, s.q)]
    ELSE IF validateQ(s.q, s.p) # Null
    THEN [s EXCEPT !.pError = Null, !.qError = validateQ(s.q, s.p)]
    ELSE LET nCalc == s.p[1] * s.q[1]
             phiCalc == (s.p[1] - 1) * (s.q[1] - 1)
             s1 == [s EXCEPT !.pError = Null, !.qError = Null,
                             !.n = Some(nCalc), !.phi = Some(phiCalc)]
         IN  IF s.e = << >> THEN [s1 EXCEPT !.eError = Some("e is required.")]
             ELSE IF validateE(s.e, Some(phiCalc)) # Null
             THEN [s1 EXCEPT !.eError = validateE(s.e, Some(phiCalc))]
             ELSE [s1 EXCEPT !.eError = Null,
                             !.d = inverseOrNull(modInverse(s.e[1], phiCalc)),
                             !.keyGenSteps = <<nCalc, phiCalc, s.e[1],
                                               modInverse(s.e[1], phiCalc)>>,
                             !.currentKeyGenStep = 0]

handleEncrypt(s) ==
    IF s.plaintext = << >> \/ ~isKeyReady(s) THEN resetDecryption(s)
    ELSE LET mVal == textToBigInt(s.plaintext)
         IN  IF bigGe(mVal, s.n[1])
             THEN [resetDecryption(s) EXCEPT
                       !.encryptionSteps = <<"Error", mVal, s.n[1]>>,
                       !.messageInt = Some(mVal), !.ciphertext = Null]
             ELSE LET r == modPowWithSteps(BigValue(mVal), s.e[1], s.n[1])
                  IN  [resetDecryption(s) EXCEPT
                           !.messageInt = Some(mVal),
                           !.ciphertext = Some(r.result),
                           !.encryptionSteps = <<"Steps", mVal, r.steps, r.result>>]

handleDecrypt(s) ==
    IF s.ciphertext = Null \/ ~isKeyReady(s) THEN s
    ELSE LET r == modPowWithSteps(s.ciphertext[1], s.d[1], s.n[1])
             text == bigIntToText(toDigits(r.result))
         IN  [s EXCEPT !.decryptedMessageInt = Some(r.result),
                       !.decryptedPlaintext = text,
                       !.decryptionSteps = <<"Steps", r.steps, r.result, text>>]

AppInit ==
    /\ pc = "ui"
    /\ op = "App"
    /\ args = << >>
    /\ res = << >>
    /\ ui = uiInit

\* A handler has run: res tells whether the render its closure came from
\* had a ready key.
Handled ==
    /\ res' = <<isKeyReady(ui)>>
    /\ UNCHANGED <<pc, op, args>>

EditP == \E val \in FieldInputs :
    ui' = onPChange(ui, val) /\ Handled

EditQ == \E val \in FieldInputs :
    ui' = onQChange(ui, val) /\ Handled

\* The e field is rendered when isKeyGenerationReady.
EditE == \E val \in FieldInputs :
    /\ isKeyGenerationReady(ui)
    /\ ui' = onEChange(ui, val)
    /\ Handled

GeneratePrimes == \E pVal \in generatedPrimes, qVal \in generatedPrimes :
    /\ pVal # qVal
    /\ ui' = handleGeneratePrimes(ui, pVal, qVal)
    /\ Handled

\* The button is disabled under !p || !q || !e.
GenerateKeys ==
    /\ ui.p # << >> /\ ui.q # << >> /\ ui.e # << >>
    /\ ui' = handleGenerateKeys(ui)
    /\ Handled

\* The plaintext input is rendered when isKeyReady.
EditPlaintext == \E val \in Texts :
    /\ isKeyReady(ui)
    /\ ui' = onPlaintextChange(ui, val)
    /\ Handled

\* handleEncrypt and handleDecrypt as the code defines them.  Their buttons
\* are absent or disabled only in states in which the handler returns at
\* its first test.
Encrypt == ui' = handleEncrypt(ui) /\ Handled

Decrypt == ui' = handleDecrypt(ui) /\ Handled

AppNext ==
    \/ EditP
    \/ EditQ
    \/ EditE
    \/ GeneratePrimes
    \/ GenerateKeys
    \/ EditPlaintext
    \/ Encrypt
    \/ Decrypt

AppSpec == AppInit /\ [][AppNext]_vars

(***************************************************************************)
(* Reference definitions the claims are stated with.                       *)
(***************************************************************************)
RECURSIVE RefPow(_, _)
RefPow(b, e) == IF e = 0 THEN 1 ELSE b * RefPow(b, e - 1)

Divides(d, n) == \E k \in 0..n : n = d * k

Max(a, b) == IF a >= b THEN a ELSE b

CommonDivisor(c, a, b) == Divides(c, a) /\ Divides(c, b)

\* The greatest common divisor of two naturals, from its definition.
RefGcd(a, b) ==
    IF a = 0 /\ b = 0 THEN 0
    ELSE CHOOSE g \in 1..Max(a, b) :
            /\ CommonDivisor(g, a, b)
            /\ \A c \in 1..Max(a, b) : CommonDivisor(c, a, b) => c <= g

RefIsPrime(n) == n >= 2 /\ \A k \in 2..(n - 1) : n % k # 0

(***************************************************************************)
(* Claims.                                                                 *)
(***************************************************************************)
\* C1: for base >= 0, exponent >= 0 and modulus >= 1, modPow returns
\* base^exponent mod modulus as the reference power-then-remainder computes
\* it; it returns 0 when modulus = 1, and modPow(4, 13, 497) = 445.
C1_ModPowIsPowerMod ==
    Returned("modPow") /\ args[1] >= 0 =>
        /\ res = RefPow(args[1], args[2]) % args[3]
        /\ (args[3] = 1 => res = 0)
        /\ (args = <<4, 13, 497>> => res = 445)

C1_Witness == Returned("modPow") /\ args = <<4, 13, 497>> /\ res = 445

\* C2: for every integer base, negative ones included, every exponent >= 0
\* and modulus >= 1, the value modPow returns lies in [0, modulus).
C2_ModPowInCanonicalRange ==
    Returned("modPow") => res \in 0..(args[3] - 1)

\* C3: modPowWithSteps(base, exponent, modulus).result equals
\* modPow(base, exponent, modulus), for every base, exponent >= 0 (0
\* included) and modulus >= 1.
C3_StepsResultIsModPow ==
    Returned("modPowWithSteps") => res.result = modPow(args[1], args[2], args[3])

C3_Witness ==
    /\ Returned("modPowWithSteps")
    /\ args = <<3, 5, 7>>
    /\ res.result = 5

\* C4 as stated: for all e and phi (phi >= 1, where "mod phi" has a
\* meaning) with gcd(e, phi) = 1, modInverse(e, phi) returns d with
\* (d * e) mod phi = 1.
C4_Original ==
    Returned("modInverse") /\ args[2] >= 1 /\ gcd(args[1], args[2]) = 1 =>
        res.kind = "num" /\ (res.val * args[1]) % args[2] = 1

\* C4 as amended: for all e and all phi >= 2 with gcd(e, phi) = 1,
\* modInverse(e, phi) returns d with (d * e) mod phi = 1, mod being the
\* non-negative residue, which is what % gives when e >= 0.
C4_InverseTimesEIsOne ==
    Returned("modInverse") /\ args[2] >= 2 /\ gcd(args[1], args[2]) = 1 =>
        /\ res.kind = "num"
        /\ (res.val * args[1]) % args[2] = 1
        /\ (args[1] >= 0 => JsRem(res.val * args[1], args[2]) = 1)

C4_Witness == Returned("modInverse") /\ args = <<3, 10>> /\ res = Num(7)

\* C5: modInverse(e, phi) returns the null sentinel exactly when
\* gcd(e, phi) # 1 (gcd as the module computes it and, on naturals, the
\* greatest common divisor), and a number, 0 included, is never that
\* outcome.
C5_NullIffNotCoprime ==
    Returned("modInverse") =>
        /\ (res = NoInverse) = (gcd(args[1], args[2]) # 1)
        /\ (args[1] >= 0 /\ args[2] >= 0 =>
                ((res = NoInverse) = (RefGcd(args[1], args[2]) # 1)))
        /\ (res.kind = "num" => res # NoInverse /\ gcd(args[1], args[2]) = 1)

C5_Witness == Returned("modInverse") /\ args = <<4, 6>> /\ res = NoInverse

\* C6: with phi >= 1, a number returned by modInverse(e, phi) lies in
\* [0, phi), whatever the sign of the coefficient x of extendedEuclidean.
C6_InverseInCanonicalRange ==
    Returned("modInverse") /\ args[2] >= 1 /\ res.kind = "num" =>
        res.val \in 0..(args[2] - 1)

C6_Witness ==
    /\ Returned("modInverse")
    /\ args = <<5, 8>>
    /\ extendedEuclidean(5, 8)[2] < 0
    /\ res = Num(5)

\* C7: for all integers a and b, extendedEuclidean(a, b) returns (g, x, y)
\* with a*x + b*y = g and g = gcd(a, b) (the greatest common divisor up to
\* sign, and exactly it on naturals); the result is (a, 1, 0) when b = 0,
\* and the quotient a / b is truncated consistently with a % b.
C7_BezoutIdentity ==
    Returned("extendedEuclidean") =>
        LET a == args[1]
            b == args[2]
        IN  /\ a * res[2] + b * res[3] = res[1]
            /\ res[1] = gcd(a, b)
            /\ Abs(res[1]) = RefGcd(Abs(a), Abs(b))
            /\ (a >= 0 /\ b >= 0 => res[1] = RefGcd(a, b))
            /\ (b = 0 => res = <<a, 1, 0>>)
            /\ (b # 0 => JsDiv(a, b) * b + JsRem(a, b) = a)

C7_Witness ==
    /\ Returned("extendedEuclidean")
    /\ args = <<-7, 3>>
    /\ (-7) * res[2] + 3 * res[3] = res[1]

\* C8: for naturals a and b, gcd(a, b) divides a and b, every common
\* divisor divides it, gcd(a, b) = gcd(b, a), gcd(a, 0) = a, gcd(0, 0) = 0.
C8_GcdIsGreatestCommonDivisor ==
    Returned("gcd") /\ args[1] >= 0 /\ args[2] >= 0 =>
        LET a == args[1]
            b == args[2]
        IN  /\ res >= 0
            /\ CommonDivisor(res, a, b)
            /\ \A c \in 0..Max(a, b) : CommonDivisor(c, a, b) => Divides(c, res)
            /\ res = RefGcd(a, b)
            /\ res = gcd(b, a)
            /\ (b = 0 => res = a)
            /\ (a = 0 /\ b = 0 => res = 0)

C8_Witness == Returned("gcd") /\ args = <<12, 8>> /\ res = 4

\* C9: for every natural num of the range, isPrime(num) is true iff
\* num >= 2 and num has no divisor other than 1 and itself; isPrime(0),
\* isPrime(1) and isPrime(561) are false, isPrime(2) and isPrime(97) true.
C9_IsPrimeIsPrimality ==
    Returned("isPrime") /\ args[1] >= 0 =>
        /\ res = RefIsPrime(args[1])
        /\ (args[1] <= 1 => res = FALSE)
        /\ (args[1] \in {0, 1, 561} => res = FALSE)
        /\ (args[1] \in {2, 97} => res = TRUE)

C9_Witness == Returned("isPrime") /\ args = <<561>> /\ res = FALSE

\* C10 as stated: for any text t, the empty text and texts whose first
\* byte is zero included, bigIntToText(textToBigInt(t)) = t.
C10_Original == Returned("roundTrip") => res.text = args[1]

\* C10 as amended: bigIntToText(textToBigInt(t)) = t for every text t that
\* is not empty and whose first character is neither U+0000 nor U+FEFF.
C10_RoundTrip ==
    Returned("roundTrip") /\ args[1] # << >> /\ Head(args[1]) \notin {0, 65279} =>
        res.text = args[1]

C10_Witness ==
    /\ Returned("roundTrip")
    /\ args = << <<72, 73>> >>
    /\ res = [big |-> <<72, 73>>, text |-> <<72, 73>>]

\* Sum over i of b[i] * 256^(n-1-i), b indexed from 0 in the claim.
RECURSIVE RefByteSum(_, _)
RefByteSum(bytes, i) ==
    IF i > Len(bytes) THEN 0
    ELSE bytes[i] * RefPow(256, Len(bytes) - i) + RefByteSum(bytes, i + 1)

\* A byte sequence without its leading zero bytes: the digits of its value.
RECURSIVE StripZeros(_)
StripZeros(bytes) ==
    IF bytes # << >> /\ bytes[1] = 0 THEN StripZeros(Tail(bytes)) ELSE bytes

\* C11: textToBigInt returns the big-endian base-256 value of the bytes
\* that encode the text: its digits are the bytes (leading zeros apart), it
\* equals the sum of b[i] * 256^(n-1-i) (evaluated where the sum fits the
\* checker's integers: up to three bytes), it is not negative, and it is 0
\* for the empty text.
C11_BigEndianValue ==
    Returned("roundTrip") =>
        LET bytes == encode(args[1])
        IN  /\ res.big = StripZeros(bytes)
            /\ \A i \in 1..Len(res.big) : res.big[i] \in 0..255
            /\ (Len(bytes) <= 3 =>
                    BigValue(res.big) = RefByteSum(bytes, 1) /\ BigValue(res.big) >= 0)
            /\ (args[1] = << >> => res.big = << >>)

C11_Witness ==
    /\ Returned("roundTrip")
    /\ args = << <<72, 233>> >>
    /\ res.big = <<72, 195, 169>>
    /\ BigValue(res.big) = 72 * 65536 + 195 * 256 + 169

\* The bytes bigIntToText hands to the decoder.
BytesOf(big) == hexPairs(padEven(toHexString(big)), 1)

\* Bytes are valid UTF-8 iff decoding and encoding again gives them back:
\* an ill-formed part decodes to U+FFFD, which encodes to other bytes.
ValidUtf8(bytes) == encode(utf8Decode(bytes, 1, 0, 0, 0, 128, 191, << >>)) = bytes

\* C12: bigIntToText fails with MalformedText, and returns no text with
\* replacement characters, whenever the bytes of the integer are not valid
\* UTF-8.
C12_MalformedTextFails ==
    Returned("bigIntToText") /\ ~ValidUtf8(BytesOf(args[1])) =>
        res.kind = "MalformedText"

\* C15: for a key from distinct primes p, q with n = p*q,
\* phi = (p-1)*(q-1), 1 < e < phi, gcd(e, phi) = 1, d = modInverse(e, phi),
\* and a message 0 <= M < n: modPow(modPow(M, e, n), d, n) = M; p = 17,
\* q = 19, e = 5 give d = 173 and M = 2 encrypts to 32.
C15_DecryptInvertsEncrypt ==
    Returned("encryptDecrypt") =>
        /\ res.d.kind = "num"
        /\ res.m = args[4]
        /\ res.c \in 0..(res.n - 1)
        /\ (<<args[1], args[2], args[3]>> = <<17, 19, 5>> =>
                res.n = 323 /\ res.phi = 288 /\ res.d = Num(173))
        /\ (args = <<17, 19, 5, 2>> => res.c = 32 /\ res.m = 2)

C15_Witness ==
    /\ Returned("encryptDecrypt")
    /\ args = <<17, 19, 5, 2>>
    /\ res = [n |-> 323, phi |-> 288, d |-> Num(173), c |-> 32, m |-> 2]

\* The number of binary digits of a natural ("0" has one).
RECURSIVE NumBits(_)
NumBits(n) == IF n < 2 THEN 1 ELSE 1 + NumBits(n \div 2)

\* The accumulator of modPow after its while loop has dealt with the j
\* lowest bits of the exponent (or has ended before).
RECURSIVE modPowAfter(_, _, _, _, _)
modPowAfter(result, base, exponent, modulus, j) ==
    IF j > 0 /\ exponent > 0
    THEN LET s == modPowIter(result, base, exponent, modulus)
         IN  modPowAfter(s[1], s[2], s[3], modulus, j - 1)
    ELSE result

\* The position in the trace of the per-bit entry of bit k.
BitEntry(steps, k) ==
    CHOOSE i \in DOMAIN steps : steps[i][1] = "bit" /\ steps[i][2] = k

\* C20: for exponent >= 0 and modulus > 1 the trace of modPowWithSteps has
\* exactly one per-bit entry for each binary digit of the exponent, in the
\* order of bit 0 (least significant) to the most significant; an entry
\* records a multiply exactly when its bit is 1, and the accumulator it logs
\* is the one modPow holds after the same bit.
C20_OneEntryPerBit ==
    Returned("modPowWithSteps") /\ args[3] > 1 =>
        LET steps == res.steps
            bits == NumBits(args[2])
            entries == {i \in DOMAIN steps : steps[i][1] = "bit"}
        IN  /\ Cardinality(entries) = bits
            /\ \A k \in 0..(bits - 1) :
                 /\ \E i \in entries : steps[i][2] = k
                 /\ LET i == BitEntry(steps, k)
                        bit == (args[2] \div RefPow(2, k)) % 2
                        acc == modPowAfter(1, JsRem(args[1], args[3]), args[2],
                                           args[3], k + 1)
                    IN  /\ steps[i][3] = bit
                        /\ (k > 0 => BitEntry(steps, k - 1) < i)
                        /\ (bit = 1) = (steps[i + 1][1] = "mulrule")
                        /\ (bit = 1 => steps[i + 2][1] = "mul" /\ steps[i + 2][5] = acc)
                        /\ (bit = 0 => steps[i + 1][1] = "keep" /\ steps[i + 1][2] = acc)
            /\ Cardinality({i \in DOMAIN steps : steps[i][1] = "mul"})
                 = Cardinality({k \in 0..(bits - 1) : (args[2] \div RefPow(2, k)) % 2 = 1})

C20_Witness ==
    /\ Returned("modPowWithSteps")
    /\ args = <<3, 5, 7>>
    /\ Cardinality({i \in DOMAIN res.steps : res.steps[i][1] = "bit"}) = 3
    /\ Cardinality({i \in DOMAIN res.steps : res.steps[i][1] = "mul"}) = 2

NoPrimeIn(min, max) == \A v \in min..max : ~RefIsPrime(v)

\* C13: on a range that holds no prime (min = max = 10, say),
\* generateRandomPrime ends after a bounded number of attempts and reports
\* a RangeHasNoPrime failure; it never loops forever.
C13_PrimeFreeRangeFails ==
    (op = "generateRandomPrime" /\ NoPrimeIn(args[1], args[2]))
        ~> (pc = "failed" \/ pc = "done")

\* C14: for min <= max, a value generateRandomPrime(min, max) returns is
\* prime and lies in [min, max]; the initial candidate 0 is never returned.
C14_ReturnsPrimeInRange ==
    Returned("generateRandomPrime") =>
        /\ RefIsPrime(res)
        /\ res \in args[1]..args[2]
        /\ res # 0

C14_Witness ==
    /\ Returned("generateRandomPrime")
    /\ args = <<PrimeMin, PrimeMax>>
    /\ res = 47


\* n, phi, e and d are all set.
KeySet(s) == s.n # Null /\ s.phi # Null /\ s.e # << >> /\ s.d # Null

\* C16: in every reachable state of the visualizer in which the key is ready,
\* n = p*q, phi = (p-1)*(q-1), gcd(e, phi) = 1, e*d mod phi = 1 and p # q
\* for the p, q and e currently held.
C16_KeyTupleInvariant ==
    (op = "App" /\ isKeyReady(ui)) =>
        /\ ui.p # << >> /\ ui.q # << >>
        /\ ui.n[1] = ui.p[1] * ui.q[1]
        /\ ui.phi[1] = (ui.p[1] - 1) * (ui.q[1] - 1)
        /\ RefGcd(ui.e[1], ui.phi[1]) = 1
        /\ (ui.e[1] * ui.d[1]) % ui.phi[1] = 1
        /\ ui.p # ui.q

\* The plaintext field never holds a text and no ciphertext is ever
\* computed: the change handler's reset is its last write to plaintext, and
\* handleEncrypt returns at its first test.
PlaintextStaysEmpty == ui.plaintext = << >> /\ ui.messageInt = Null

CiphertextStaysAbsent == ui.ciphertext = Null /\ ui.decryptedMessageInt = Null

DecryptionResults(s) ==
    s.decryptedMessageInt # Null \/ s.decryptedPlaintext # << >>
        \/ s.decryptionSteps # << >>

Cleared(s) ==
    /\ s.n = Null /\ s.phi = Null /\ s.e = << >> /\ s.d = Null
    /\ s.ciphertext = Null
    /\ ~DecryptionResults(s)

\* The step is an edit of p (of q): the handler ran on the value the field
\* now holds.  The step is Generate Primes: the handler ran on the primes the
\* fields now hold.
EditedP == ui' = onPChange(ui, ui'.p)

EditedQ == ui' = onQChange(ui, ui'.q)

GeneratedPrimes ==
    /\ ui'.p # << >> /\ ui'.q # << >>
    /\ ui'.p[1] \in generatedPrimes /\ ui'.q[1] \in generatedPrimes
    /\ ui'.p # ui'.q
    /\ ui' = handleGeneratePrimes(ui, ui'.p[1], ui'.q[1])

====
